---- MODULE Spec2Model ----
(***************************************************************************)
(* Model of src/main.py: the subtitle pipeline of the Python AI Subtitle   *)
(* Translator.  Strings are sequences of one-character strings, so that    *)
(* str.replace, re.sub and the f-string paths are computed character by    *)
(* character.  The file system is a function from paths to file contents.  *)
(***************************************************************************)
EXTENDS Integers, Sequences, FiniteSets, TLC

VARIABLES
  video_format,       \* args.video_format
  fs,                 \* files of the working directory: path -> content
  out,                \* files of the output directory: path -> muxed container
  run,                \* which invocation of the program this is
  pc,                 \* position of the program
  video_files,        \* the sorted glob result of __main__
  fileIdx,            \* position of the for loop over video_files
  mkv,                \* path handed to MKVFile
  opened,             \* what pysrt.open returned for the job
  subs_german,        \* the one in-memory SubRipFile (aliased by subs_english, subs_combined)
  subs_german_list,   \* texts taken from the normalized track
  subs_english_list,  \* what translate_text returned
  request,            \* body of the last client.translate call
  convCalls,          \* names whose job invoked convert_mp4_to_mkv in this run
  trCalls,            \* names whose job called translate_text in this run
  convFailed,         \* names whose conversion was reported failed in this run
  trFailed,           \* names whose client.translate call raised in this run
  trEmpty,            \* names whose translate_text call returned [] in this run
  skipped,            \* names whose job returned at the skip check in this run
  exc,                \* the uncaught exception that ended the run, or ""
  outAtRunStart       \* the output directory when the current run started

vars == <<video_format, fs, out, run, pc, video_files, fileIdx, mkv, opened,
          subs_german, subs_german_list, subs_english_list, request, convCalls,
          trCalls, convFailed, trFailed, trEmpty, skipped, exc, outAtRunStart>>

----------------------------------------------------------------------------
(* Bounds *)

MaxCaptions == 2
MaxRuns == 2
MaxTextLen == 6

----------------------------------------------------------------------------
(* Strings *)

MP4 == <<"m", "p", "4">>
MKV == <<"m", "k", "v">>
AVI == <<"a", "v", "i">>
Formats == {MP4, MKV, AVI}

WD == <<"w">>
Slash == <<"/">>
Dot == <<".">>
SrtExt == <<"s", "r", "t">>
EnSuffix == <<"_", "e", "n">>
CombinedSuffix == <<"_", "c", "o", "m", "b", "i", "n", "e", "d">>

Names == {<<"a">>, <<"m", "p", "4">>}

\* ord() of the characters that occur in video paths
Ord == [c \in {".", "/", "4", "a", "i", "k", "m", "p", "v", "w"} |->
          CASE c = "." -> 46 [] c = "/" -> 47 [] c = "4" -> 52 [] c = "a" -> 97
            [] c = "i" -> 105 [] c = "k" -> 107 [] c = "m" -> 109
            [] c = "p" -> 112 [] c = "v" -> 118 [] c = "w" -> 119]

StartsAt(s, i, pat) ==
  /\ i + Len(pat) - 1 <= Len(s)
  /\ SubSeq(s, i, i + Len(pat) - 1) = pat

Contains(s, pat) == \E i \in 1..(Len(s) + 1) : StartsAt(s, i, pat)

RECURSIVE ReplaceFrom(_, _, _, _)
ReplaceFrom(s, i, old, new) ==
  IF i > Len(s) THEN <<>>
  ELSE IF StartsAt(s, i, old) THEN new \o ReplaceFrom(s, i + Len(old), old, new)
  ELSE <<s[i]>> \o ReplaceFrom(s, i + 1, old, new)

\* str.replace(old, new) for a non-empty old
Replace(s, old, new) == ReplaceFrom(s, 1, old, new)

RECURSIVE LexLess(_, _)
LexLess(s, t) ==
  IF t = <<>> THEN FALSE
  ELSE IF s = <<>> THEN TRUE
  ELSE IF s[1] # t[1] THEN Ord[s[1]] < Ord[t[1]]
  ELSE LexLess(Tail(s), Tail(t))

Sorted(S) ==
  CHOOSE sq \in [1..Cardinality(S) -> S] :
    \A i, j \in 1..Cardinality(S) : i < j => LexLess(sq[i], sq[j])

LastIndexOf(s, c) ==
  IF \E i \in 1..Len(s) : s[i] = c
  THEN CHOOSE i \in 1..Len(s) : s[i] = c /\ \A j \in (i + 1)..Len(s) : s[j] # c
  ELSE 0

Basename(p) == SubSeq(p, LastIndexOf(p, "/") + 1, Len(p))

\* os.path.splitext(b)[0] for a base name b
SplitExtRoot(b) ==
  IF LastIndexOf(b, ".") <= 1 THEN b ELSE SubSeq(b, 1, LastIndexOf(b, ".") - 1)

----------------------------------------------------------------------------
(* Files *)

Put(f, p, c) == [q \in DOMAIN f \cup {p} |-> IF q = p THEN c ELSE f[q]]

VideoFile(name) == [kind |-> "video", streams |-> name, subs |-> <<>>]
SrtFile(track) == [kind |-> "srt", streams |-> <<>>, subs |-> track]

MkTrack(texts) ==
  [i \in 1..Len(texts) |->
     [index |-> i, start |-> 2 * i - 1, end |-> 2 * i, text |-> texts[i]]]

TextsOf(track) == [i \in 1..Len(track) |-> track[i].text]

----------------------------------------------------------------------------
(* normalize_subtitles *)

\* Where the match of <[^>]+> that starts at i ends, or 0 when none starts there:
\* a "<", at least one character that is not ">", then the first ">".
TagEnd(s, i) ==
  IF /\ s[i] = "<"
     /\ i + 1 <= Len(s)
     /\ s[i + 1] # ">"
     /\ \E j \in (i + 2)..Len(s) : s[j] = ">"
  THEN CHOOSE j \in (i + 2)..Len(s) :
         s[j] = ">" /\ \A k \in (i + 2)..(j - 1) : s[k] # ">"
  ELSE 0

HasTag(s) == \E i \in 1..Len(s) : TagEnd(s, i) # 0

RECURSIVE ReSubFrom(_, _)
ReSubFrom(s, i) ==
  IF i > Len(s) THEN <<>>
  ELSE IF TagEnd(s, i) # 0 THEN ReSubFrom(s, TagEnd(s, i) + 1)
  ELSE <<s[i]>> \o ReSubFrom(s, i + 1)

RECURSIVE ReSubFirstFrom(_, _)
ReSubFirstFrom(s, i) ==
  IF i > Len(s) THEN <<>>
  ELSE IF TagEnd(s, i) # 0 THEN SubSeq(s, TagEnd(s, i) + 1, Len(s))
  ELSE <<s[i]>> \o ReSubFirstFrom(s, i + 1)

\* re.sub with count=1: only the leftmost match is removed
ReSubCountOne(s) == ReSubFirstFrom(s, 1)

\* re.sub(r"<[^>]+>", '', s): every leftmost non-overlapping match is removed
ReSub(s) == ReSubFrom(s, 1)

normalize_subtitles(subtitles) ==
  [i \in 1..Len(subtitles) |-> [subtitles[i] EXCEPT !.text = ReSub(subtitles[i].text)]]

----------------------------------------------------------------------------
(* translate_text and the remote service *)

EnTexts == {<<"e">>, <<"f", "<">>}

\* What the client call can raise, by cause
ErrorKinds == {"auth", "quota", "malformed", "network"}

\* The azure.core exception raised for each cause
ExceptionClass(kind) ==
  CASE kind = "auth" -> "ClientAuthenticationError"
    [] kind = "quota" -> "HttpResponseError"
    [] kind = "malformed" -> "HttpResponseError"
    [] kind = "network" -> "ServiceRequestError"

\* isinstance(e, HttpResponseError): the class and its subclasses
IsHttpResponseError(cls) == cls \in {"HttpResponseError", "ClientAuthenticationError"}

\* body=[{"Text": text}]
RequestBody(text) == <<[Text |-> text]>>

\* The service answers a request with one item per element of its body, whatever
\* that element's Text holds, or fails
ServiceOutcomes(body) ==
  {[ok |-> TRUE, error |-> "", response |-> r] :
     r \in [1..Len(body) -> {[translations |-> <<[text |-> e]>>] : e \in EnTexts}]}
  \cup {[ok |-> FALSE, error |-> k, response |-> <<>>] : k \in ErrorKinds}

\* translate_text(client, text) under one outcome of client.translate:
\* the list it returns, and the exception it lets through ("" when none)
translate_text(text, outcome) ==
  IF outcome.ok
  THEN [body |-> RequestBody(text),
        result |-> [i \in 1..Len(outcome.response) |->
                      outcome.response[i].translations[1].text],
        raised |-> ""]
  ELSE IF IsHttpResponseError(ExceptionClass(outcome.error))
  THEN [body |-> RequestBody(text), result |-> <<>>, raised |-> ""]
  ELSE [body |-> RequestBody(text), result |-> <<>>,
        raised |-> ExceptionClass(outcome.error)]

----------------------------------------------------------------------------
(* The combined caption text *)

FontGerman == <<"<", "f", "o", "n", "t", " ", "c", "o", "l", "o", "r", "=", "'", "#", "4", "2", "f", "5", "f", "2", "'", ">">>
FontEnglish == <<"<", "f", "o", "n", "t", " ", "c", "o", "l", "o", "r", "=", "'", "#", "b", "0", "4", "2", "f", "5", "'", ">">>
FontClose == <<"<", "/", "f", "o", "n", "t", ">">>
Newline == <<"\n">>

CombinedTextSwapped(german, english) ==
  FontGerman \o english \o FontClose \o Newline \o FontEnglish \o german \o FontClose

CombinedText(german, english) ==
  FontGerman \o german \o FontClose \o Newline \o FontEnglish \o english \o FontClose

----------------------------------------------------------------------------
(* Paths of a job *)

NameOf(file) == SplitExtRoot(Basename(file))

VideoInputPath(name) == WD \o Slash \o name \o Dot \o video_format
VideoInputPathMkv(name) == Replace(VideoInputPath(name), MP4, MKV)
SrtGermanPath(name) == WD \o Slash \o name \o Dot \o SrtExt
SrtEnglishPath(name) == WD \o Slash \o name \o EnSuffix \o Dot \o SrtExt
SrtCombinedPath(name) == WD \o Slash \o name \o CombinedSuffix \o Dot \o SrtExt
OutputDirectory == WD \o Slash \o <<"o", "u", "t", "p", "u", "t">>
VideoOutputPath(name) == OutputDirectory \o Slash \o name \o Dot \o MKV

\* glob.glob(os.path.join(working_directory, '*.<format>'))
Glob(files, format) ==
  {p \in DOMAIN files :
     /\ StartsAt(p, 1, WD \o Slash)
     /\ Len(p) >= Len(WD) + 1 + 1 + Len(format)
     /\ StartsAt(p, Len(p) - Len(format), Dot \o format)
     /\ \A i \in (Len(WD) + 2)..Len(p) : p[i] # "/"}

----------------------------------------------------------------------------
(* The program *)

NoJob == <<>>

\* The file the for loop is at, and its name
CurFile == video_files[fileIdx]
CurName == NameOf(CurFile)

InJob == pc \in {"convert", "open", "normalize", "translate", "english", "combined", "mux"}

JobLocals == <<mkv, opened, subs_german, subs_german_list, subs_english_list>>
Ghosts == <<request, convCalls, trCalls, convFailed, trFailed, trEmpty, skipped>>

ClearedLocals ==
  /\ mkv' = NoJob
  /\ opened' = <<>>
  /\ subs_german' = <<>>
  /\ subs_german_list' = <<>>
  /\ subs_english_list' = <<>>

\* An uncaught exception leaves process_video_file and the for loop: the process ends
Crash(e) ==
  /\ pc' = "crashed"
  /\ exc' = e

\* The tracks a caption file of the working directory can hold at the start
RawTexts == {<<"<", "b", ">", "x">>, <<"y">>}
Tracks == UNION {{MkTrack(t) : t \in [1..n -> RawTexts]} : n \in 0..MaxCaptions}

InitialFiles(present, withSrt, tr) ==
  [p \in {WD \o Slash \o n \o Dot \o video_format : n \in present}
         \cup {SrtGermanPath(n) : n \in withSrt} |->
     IF \E n \in withSrt : p = SrtGermanPath(n)
     THEN SrtFile(tr[CHOOSE n \in withSrt : p = SrtGermanPath(n)])
     ELSE VideoFile(NameOf(p))]

InitRun ==
  /\ out = <<>>
  /\ run = 1
  /\ request = <<>>
  /\ convCalls = {}
  /\ trCalls = {}
  /\ convFailed = {}
  /\ trFailed = {}
  /\ trEmpty = {}
  /\ skipped = {}
  /\ exc = ""
  /\ outAtRunStart = <<>>

InitLocals ==
  /\ opened = <<>>
  /\ subs_german = <<>>
  /\ subs_german_list = <<>>
  /\ subs_english_list = <<>>

Init ==
  /\ video_format \in Formats
  /\ \E present \in SUBSET Names \ {{}} :
       \E withSrt \in SUBSET present :
         \E tr \in [withSrt -> Tracks] :
           fs = InitialFiles(present, withSrt, tr)
  /\ pc = "start"
  /\ video_files = <<>>
  /\ fileIdx = 1
  /\ mkv = NoJob
  /\ InitLocals
  /\ InitRun

\* __main__ up to the for loop: the output directory exists, the inputs are globbed
Discover ==
  /\ pc = "start"
  /\ video_files' = Sorted(Glob(fs, video_format))
  /\ fileIdx' = 1
  /\ pc' = "loop"
  /\ UNCHANGED <<video_format, fs, out, run, JobLocals, Ghosts, exc, outAtRunStart>>

\* The for loop is exhausted: the process exits 0
LoopEnd ==
  /\ pc = "loop"
  /\ fileIdx > Len(video_files)
  /\ pc' = "exited"
  /\ UNCHANGED <<video_format, fs, out, run, video_files, fileIdx, JobLocals, Ghosts,
                 exc, outAtRunStart>>

\* os.path.exists(path)
Exists(path, files) == path \in DOMAIN files

SkipNever(video_output_path, files) == FALSE

\* if os.path.exists(video_output_path): return
SkipCheck(video_output_path, files) == Exists(video_output_path, files)

\* process_video_file returns at the skip check
JobSkip ==
  /\ pc = "loop"
  /\ fileIdx <= Len(video_files)
  /\ SkipCheck(VideoOutputPath(CurName), out)
  /\ skipped' = skipped \cup {CurName}
  /\ fileIdx' = fileIdx + 1
  /\ UNCHANGED <<video_format, fs, out, run, pc, video_files, JobLocals, request,
                 convCalls, trCalls, convFailed, trFailed, trEmpty, exc, outAtRunStart>>

\* process_video_file passes the skip check
JobStart ==
  /\ pc = "loop"
  /\ fileIdx <= Len(video_files)
  /\ ~SkipCheck(VideoOutputPath(CurName), out)
  /\ pc' = "convert"
  /\ UNCHANGED <<video_format, fs, out, run, video_files, fileIdx, JobLocals, Ghosts,
                 exc, outAtRunStart>>

\* convert_mp4_to_mkv(input_file, output_file): the files after the call, where
\* ok says whether ffmpeg ended with return code 0
convert_mp4_to_mkv(files, input_file, output_file, ok) ==
  IF ~Exists(input_file, files) THEN files
  ELSE IF ok THEN Put(files, output_file, VideoFile(files[input_file].streams))
  ELSE files

\* if args.video_format == "mp4": convert_mp4_to_mkv(...)
Convert ==
  /\ pc = "convert"
  /\ IF video_format = MP4
     THEN \E ok \in BOOLEAN :
            /\ fs' = convert_mp4_to_mkv(fs, VideoInputPath(CurName),
                                        VideoInputPathMkv(CurName), ok)
            /\ convCalls' = convCalls \cup {CurName}
            /\ convFailed' = IF ok THEN convFailed ELSE convFailed \cup {CurName}
     ELSE UNCHANGED <<fs, convCalls, convFailed>>
  /\ pc' = "open"
  /\ UNCHANGED <<video_format, out, run, video_files, fileIdx, JobLocals, request,
                 trCalls, trFailed, trEmpty, skipped, exc, outAtRunStart>>

\* mkv = MKVFile(video_input_path_mkv), and the audio tracks renamed
OpenContainer ==
  /\ pc = "open"
  /\ IF Exists(VideoInputPathMkv(CurName), fs)
     THEN /\ mkv' = VideoInputPathMkv(CurName)
          /\ pc' = "normalize"
          /\ UNCHANGED exc
     ELSE /\ Crash("FileNotFoundError")
          /\ UNCHANGED mkv
  /\ UNCHANGED <<video_format, fs, out, run, video_files, fileIdx, opened, subs_german,
                 subs_german_list, subs_english_list, Ghosts, outAtRunStart>>

\* pysrt.open, normalize_subtitles, save, and the list of the texts
Normalize ==
  /\ pc = "normalize"
  /\ IF Exists(SrtGermanPath(CurName), fs)
     THEN /\ opened' = fs[SrtGermanPath(CurName)].subs
          /\ subs_german' = normalize_subtitles(opened')
          /\ fs' = Put(fs, SrtGermanPath(CurName), SrtFile(subs_german'))
          /\ subs_german_list' = TextsOf(subs_german')
          /\ pc' = "translate"
          /\ UNCHANGED exc
     ELSE /\ Crash("FileNotFoundError")
          /\ UNCHANGED <<opened, subs_german, fs, subs_german_list>>
  /\ UNCHANGED <<video_format, out, run, video_files, fileIdx, mkv, subs_english_list,
                 Ghosts, outAtRunStart>>

\* subs_english_list = translate_text(client, subs_german_list)
Translate ==
  /\ pc = "translate"
  /\ \E outcome \in ServiceOutcomes(RequestBody(subs_german_list)) :
       LET r == translate_text(subs_german_list, outcome) IN
         /\ request' = r.body
         /\ trCalls' = trCalls \cup {CurName}
         /\ trFailed' = IF outcome.ok THEN trFailed ELSE trFailed \cup {CurName}
         /\ IF r.raised = ""
            THEN /\ subs_english_list' = r.result
                 /\ trEmpty' = IF r.result = <<>> THEN trEmpty \cup {CurName} ELSE trEmpty
                 /\ pc' = "english"
                 /\ UNCHANGED exc
            ELSE /\ Crash(r.raised)
                 /\ UNCHANGED <<subs_english_list, trEmpty>>
  /\ UNCHANGED <<video_format, fs, out, run, video_files, fileIdx, mkv, opened,
                 subs_german, subs_german_list, convCalls, convFailed, skipped,
                 outAtRunStart>>

\* for index, subtitle in enumerate(subs): subtitle.text = texts[index]
\* raises IndexError when texts is shorter than subs
RaisesIndexError(subs, texts) == Len(texts) < Len(subs)

SetTexts(subs, texts) ==
  [i \in 1..Len(subs) |-> [subs[i] EXCEPT !.text = texts[i]]]

\* A loop that stops at the shorter of the two sequences instead of raising
EnglishLenient ==
  /\ pc = "english"
  /\ subs_german' = [i \in 1..Len(subs_german) |->
                       IF i <= Len(subs_english_list)
                       THEN [subs_german[i] EXCEPT !.text = subs_english_list[i]]
                       ELSE subs_german[i]]
  /\ fs' = Put(fs, SrtEnglishPath(CurName), SrtFile(subs_german'))
  /\ pc' = "combined"
  /\ UNCHANGED <<video_format, out, run, video_files, fileIdx, mkv, opened,
                 subs_german_list, subs_english_list, Ghosts, exc, outAtRunStart>>

\* subs_english = subs_german; the texts replaced; subs_english.save(srt_english_path)
English ==
  /\ pc = "english"
  /\ IF RaisesIndexError(subs_german, subs_english_list)
     THEN /\ Crash("IndexError")
          /\ UNCHANGED <<subs_german, fs>>
     ELSE /\ subs_german' = SetTexts(subs_german, subs_english_list)
          /\ fs' = Put(fs, SrtEnglishPath(CurName), SrtFile(subs_german'))
          /\ pc' = "combined"
          /\ UNCHANGED exc
  /\ UNCHANGED <<video_format, out, run, video_files, fileIdx, mkv, opened,
                 subs_german_list, subs_english_list, Ghosts, outAtRunStart>>

CombinedTexts(german, english, n) ==
  [i \in 1..n |-> CombinedText(german[i], english[i])]

\* The English track saved only after the combined loop has overwritten the object
CombinedSavesEnglishLate ==
  /\ pc = "combined"
  /\ ~RaisesIndexError(subs_german, subs_english_list)
  /\ subs_german' = SetTexts(subs_german,
         CombinedTexts(subs_german_list, subs_english_list, Len(subs_german)))
  /\ fs' = Put(Put(fs, SrtEnglishPath(CurName), SrtFile(subs_german')),
               SrtCombinedPath(CurName), SrtFile(subs_german'))
  /\ pc' = "mux"
  /\ UNCHANGED <<video_format, out, run, video_files, fileIdx, mkv, opened,
                 subs_german_list, subs_english_list, Ghosts, exc, outAtRunStart>>

\* subs_combined = subs_german; the texts replaced; subs_combined.save(srt_combined_path)
Combined ==
  /\ pc = "combined"
  /\ IF \/ RaisesIndexError(subs_german, subs_german_list)
        \/ RaisesIndexError(subs_german, subs_english_list)
     THEN /\ Crash("IndexError")
          /\ UNCHANGED <<subs_german, fs>>
     ELSE /\ subs_german' = SetTexts(subs_german,
                 CombinedTexts(subs_german_list, subs_english_list, Len(subs_german)))
          /\ fs' = Put(fs, SrtCombinedPath(CurName), SrtFile(subs_german'))
          /\ pc' = "mux"
          /\ UNCHANGED exc
  /\ UNCHANGED <<video_format, out, run, video_files, fileIdx, mkv, opened,
                 subs_german_list, subs_english_list, Ghosts, outAtRunStart>>

\* MKVTrack(path) with its track name
MKVTrack(files, path, track_name) == [track_name |-> track_name, subs |-> files[path].subs]

\* The three MKVTrack objects added to mkv, and mkv.mux(video_output_path)
Mux ==
  /\ pc = "mux"
  /\ out' = Put(out, VideoOutputPath(CurName),
                [streams |-> fs[mkv].streams,
                 audio_name |-> "Deutsch",
                 tracks |-> <<MKVTrack(fs, SrtEnglishPath(CurName), "Englisch"),
                              MKVTrack(fs, SrtCombinedPath(CurName), "Deutsch + Englisch"),
                              MKVTrack(fs, SrtGermanPath(CurName), "Deutsch")>>])
  /\ fileIdx' = fileIdx + 1
  /\ pc' = "loop"
  /\ ClearedLocals
  /\ UNCHANGED <<video_format, fs, run, video_files, Ghosts, exc, outAtRunStart>>

\* The program is started again on the same working directory with the same arguments
Rerun ==
  /\ pc \in {"exited", "crashed"}
  /\ run < MaxRuns
  /\ run' = run + 1
  /\ pc' = "start"
  /\ exc' = ""
  /\ video_files' = <<>>
  /\ fileIdx' = 1
  /\ ClearedLocals
  /\ request' = <<>>
  /\ convCalls' = {}
  /\ trCalls' = {}
  /\ convFailed' = {}
  /\ trFailed' = {}
  /\ trEmpty' = {}
  /\ skipped' = {}
  /\ outAtRunStart' = out
  /\ UNCHANGED <<video_format, fs, out>>

Next ==
  \/ Discover
  \/ LoopEnd
  \/ JobSkip
  \/ JobStart
  \/ Convert
  \/ OpenContainer
  \/ Normalize
  \/ Translate
  \/ English
  \/ Combined
  \/ Mux
  \/ Rerun

Spec == Init /\ [][Next]_vars

----------------------------------------------------------------------------
(* normalize_subtitles on arbitrary caption texts: the program stands at the *)
(* normalize step of the job of w/a.mkv                                      *)

TagAlphabet == {"<", ">", "a"}
Strings == UNION {[1..k -> TagAlphabet] : k \in 0..MaxTextLen}

\* A track with the texts t, the text of caption p replaced by s
NormTrack(t, p, s) == MkTrack([i \in 1..Len(t) |-> IF i = p THEN s ELSE t[i]])

JobA == WD \o Slash \o <<"a">> \o Dot \o MKV

InitNorm ==
  /\ video_format = MKV
  /\ \E n \in 0..MaxCaptions :
       \E t \in [1..n -> RawTexts] :
         \E p \in 1..(IF n = 0 THEN 1 ELSE n) :
           \E s \in Strings :
             fs = InitialFiles({<<"a">>}, {<<"a">>},
                               [m \in {<<"a">>} |-> NormTrack(t, p, s)])
  /\ pc = "normalize"
  /\ video_files = <<JobA>>
  /\ fileIdx = 1
  /\ mkv = JobA
  /\ InitLocals
  /\ InitRun

SpecNorm == InitNorm /\ [][Normalize]_vars

(* The combined captions on arbitrary equal-length sequences: the program   *)
(* stands at the combined step of the job of w/a.mkv                         *)

GermanTexts == {<<>>, <<"x">>, <<"y", "<">>}
EnglishTexts == EnTexts \cup {<<>>}

InitComb ==
  /\ video_format = MKV
  /\ pc = "combined"
  /\ out = <<>>
  /\ run = 1
  /\ video_files = <<JobA>>
  /\ fileIdx = 1
  /\ mkv = JobA
  /\ \E n \in 0..MaxCaptions :
       \E german \in [1..n -> GermanTexts] :
         \E english \in [1..n -> EnglishTexts] :
           /\ opened = MkTrack(german)
           /\ subs_german_list = german
           /\ subs_english_list = english
           /\ subs_german = SetTexts(MkTrack(german), english)
           /\ fs = Put(Put(InitialFiles({<<"a">>}, {<<"a">>},
                                        [m \in {<<"a">>} |-> MkTrack(german)]),
                           SrtGermanPath(<<"a">>), SrtFile(MkTrack(german))),
                       SrtEnglishPath(<<"a">>), SrtFile(subs_german))
           /\ request = RequestBody(german)
  /\ trCalls = {<<"a">>}
  /\ convCalls = {}
  /\ convFailed = {}
  /\ trFailed = {}
  /\ trEmpty = {}
  /\ skipped = {}
  /\ exc = ""
  /\ outAtRunStart = <<>>

SpecComb == InitComb /\ [][Combined]_vars

----------------------------------------------------------------------------
(* Properties *)

AllFiles == {video_files[i] : i \in 1..Len(video_files)}

\* The files that have reached process_video_file in this run
Attempted ==
  {video_files[i] : i \in 1..(IF pc \in {"loop", "exited", "start"}
                              THEN fileIdx - 1 ELSE fileIdx)}

RunEnded == pc \in {"exited", "crashed"}

SameTimes(a, b) ==
  /\ Len(a) = Len(b)
  /\ \A i \in 1..Len(a) :
       /\ a[i].index = b[i].index
       /\ a[i].start = b[i].start
       /\ a[i].end = b[i].end

\* C1: a job whose output/<name>.mkv exists when it starts ends at once: no file
\* of the working or output directory changes, the converter and the translator
\* are not called, and the loop moves to the next file.
C1_SkipIsNoOp ==
  [][(/\ pc = "loop"
      /\ fileIdx <= Len(video_files)
      /\ VideoOutputPath(CurName) \in DOMAIN out)
     => (/\ fs' = fs
         /\ out' = out
         /\ convCalls' = convCalls
         /\ trCalls' = trCalls
         /\ request' = request
         /\ pc' = "loop"
         /\ fileIdx' = fileIdx + 1)]_vars

C1_Witness ==
  /\ run = 2
  /\ skipped # {}
  /\ \A n \in skipped : VideoOutputPath(n) \in DOMAIN outAtRunStart

\* C2: after a conversion failure or a translation-service failure the run is not
\* aborted, and when the run has ended every discovered file has been attempted.
C2_FailureDoesNotAbort ==
  (convFailed \cup trFailed # {}) =>
    /\ pc # "crashed"
    /\ RunEnded => AllFiles \subseteq Attempted

\* C3 as stated: no output file exists for a job whose translation result was
\* empty, whatever the number of captions of its track.
C3_NoOutputAfterEmpty ==
  \A n \in trEmpty : VideoOutputPath(n) \notin DOMAIN out

\* C3 amended: a job whose translation result was empty and whose track has at
\* least one caption never gets past the indexed substitution and leaves no
\* output file.
C3_NoOutputAfterEmptyNonEmptyTrack ==
  /\ \A n \in trEmpty :
       Len(fs[SrtGermanPath(n)].subs) >= 1 => VideoOutputPath(n) \notin DOMAIN out
  /\ (InJob /\ CurName \in trEmpty /\ Len(opened) >= 1) => pc = "english"

C3_Witness ==
  /\ pc = "crashed"
  /\ exc = "IndexError"
  /\ CurName \in trEmpty
  /\ Len(fs[SrtGermanPath(CurName)].subs) >= 1

\* C4: every error the client call raises becomes an empty result list, and no
\* exception of the translator ends the run.
C4_EveryErrorBecomesEmpty ==
  /\ trFailed \subseteq trEmpty
  /\ pc = "crashed" => exc \in {"FileNotFoundError", "IndexError"}

\* C5: the request body holds one object per input string, and on success the
\* result has one translated string per input string.
C5_OnePerInput ==
  pc = "english" =>
    /\ Len(request) = Len(subs_german_list)
    /\ CurName \notin trFailed => Len(subs_english_list) = Len(subs_german_list)

\* C6: in a job that is not skipped the converter is invoked exactly when the
\* format is not mkv, and then the container that is opened is <name>.mkv of the
\* working directory.
C6_ConvertIffNotMkv ==
  /\ pc = "open" => (CurName \in convCalls <=> video_format # MKV)
  /\ (pc = "normalize" /\ video_format # MKV) =>
       mkv = WD \o Slash \o CurName \o Dot \o MKV

\* C7 as stated: a second run leaves the output directory as it found it,
\* whatever the first run did.
C7_SecondRunChangesNothing ==
  run >= 2 => out = outAtRunStart

\* C7 amended: a later run never changes or removes an output file that exists
\* when it starts, and changes nothing in the output directory when every
\* discovered input already has its output file.
C7_ExistingOutputsKept ==
  run >= 2 =>
    /\ \A p \in DOMAIN outAtRunStart : p \in DOMAIN out /\ out[p] = outAtRunStart[p]
    /\ (\A f \in Glob(fs, video_format) :
          VideoOutputPath(NameOf(f)) \in DOMAIN outAtRunStart)
       => out = outAtRunStart

C7_Witness ==
  /\ run = 2
  /\ pc = "exited"
  /\ Len(video_files) = 2
  /\ skipped = {NameOf(f) : f \in AllFiles}

\* C8: after normalize_subtitles no caption text holds a match of <[^>]+>, a
\* second normalization changes nothing, and the captions keep their number,
\* order and timestamps.
C8_NoTagLeft ==
  pc = "translate" =>
    /\ \A i \in 1..Len(subs_german) : ~HasTag(subs_german[i].text)
    /\ normalize_subtitles(subs_german) = subs_german
    /\ SameTimes(subs_german, opened)
    /\ fs[SrtGermanPath(CurName)].subs = subs_german

C8_Witness ==
  /\ pc = "translate"
  /\ Len(opened) >= 2
  /\ \E i \in 1..Len(opened) : HasTag(opened[i].text) /\ subs_german[i].text # <<>>

\* C9: the combined sequence is as long as the source and the target sequence,
\* and its entry i holds the source text i in the first colour marker and, after
\* it, the target text i in the second colour marker.
C9_CombinedEntries ==
  pc = "mux" =>
    LET c == fs[SrtCombinedPath(CurName)].subs IN
      /\ Len(c) = Len(subs_german_list)
      /\ Len(c) = Len(subs_english_list)
      /\ \A i \in 1..Len(c) :
           LET first == FontGerman \o subs_german_list[i] \o FontClose
               second == FontEnglish \o subs_english_list[i] \o FontClose
           IN \E p, q \in 1..Len(c[i].text) :
                /\ StartsAt(c[i].text, p, first)
                /\ StartsAt(c[i].text, q, second)
                /\ p + Len(first) <= q

C9_Witness ==
  /\ pc = "mux"
  /\ Len(subs_german_list) >= 2
  /\ subs_german_list[1] # subs_german_list[2]
  /\ subs_english_list[1] # subs_german_list[1]
  /\ subs_english_list[1] # <<>>

\* C10: at the multiplex step <name>.srt holds the normalized source texts,
\* <name>_en.srt the translations without colour marker, <name>_combined.srt the
\* styled pairs, and all three have the captions and timestamps of the source.
C10_FilesConsistent ==
  pc = "mux" =>
    LET g == fs[SrtGermanPath(CurName)].subs
        e == fs[SrtEnglishPath(CurName)].subs
        c == fs[SrtCombinedPath(CurName)].subs
    IN /\ g = normalize_subtitles(opened)
       /\ SameTimes(e, opened)
       /\ SameTimes(c, opened)
       /\ \A i \in 1..Len(opened) :
            /\ e[i].text = subs_english_list[i]
            /\ ~Contains(e[i].text, FontGerman)
            /\ c[i].text = CombinedText(g[i].text, subs_english_list[i])

C10_Witness ==
  /\ pc = "mux"
  /\ Len(opened) >= 1
  /\ HasTag(opened[1].text)

====
